---- MODULE Spec2Model ----
(***************************************************************************)
(* Model of AuthController (src/src/controller/auth-controller.ts): the    *)
(* register / login / self / refresh / logout handlers, run as concurrent  *)
(* requests against the user directory and the refresh-token store.        *)
(*                                                                         *)
(* A request in flight lives in a slot.  Each action is one stretch of a   *)
(* handler between two awaited calls on shared state: the awaited call     *)
(* takes effect and the handler runs on to the next such call, or to its   *)
(* response.  The request that finished most recently is kept, with its    *)
(* response, in last.                                                      *)
(***************************************************************************)
EXTENDS Naturals, Sequences, FiniteSets

VARIABLES users, nextUserId, store, nextId, reqs, last, delivered, deletes,
          chainOf, issuedBy, rotated, loggedOut

vars == <<users, nextUserId, store, nextId, reqs, last, delivered, deletes,
          chainOf, issuedBy, rotated, loggedOut>>

(* ------------------------------ bounds -------------------------------- *)
\* requests in flight at once (slots)
MaxInFlight == 2
\* refresh-token records ever created
MaxRecords == 3
\* users ever created
MaxUsers == 2
\* users the directory ever drops
MaxDeletes == 1

\* request inputs: one address registers; a login also tries an address that
\* nobody registers and a secret that nobody has
RegisterEmails == {"a@x.com"}
LoginEmails == {"a@x.com", "b@x.com"}
RegisterPasswords == {"pw"}
LoginPasswords == {"pw", "wrong"}

(* ------------------------- values and helpers -------------------------- *)
NoUser == [id |-> 0, email |-> "", password |-> <<>>]
NoToken == [kind |-> "none", sub |-> "", email |-> "", id |-> ""]
Garbage == [kind |-> "garbage", sub |-> "", email |-> "", id |-> ""]
NoRecord == [id |-> 0, userId |-> 0]
NoCookies == [accessToken |-> NoToken, refreshToken |-> NoToken]
NoJson == [id |-> "", msg |-> "", user |-> NoUser]
NoBody == [email |-> "", password |-> ""]

DigitStr == <<"1", "2", "3", "4", "5", "6", "7", "8", "9">>

\* String(x) of a numeric id (the ids of the model stay below 10)
String(n) == IF n = 0 THEN "0" ELSE DigitStr[n]

\* the cast of an id string back to an id, done by the services' queries
ParseId(s) == IF \E n \in 1..9 : DigitStr[n] = s
              THEN CHOOSE n \in 1..9 : DigitStr[n] = s
              ELSE 0

\* HashedPasswordService.hashPassword / comparePassword
HashPassword(p) == <<"hash", p>>
ComparePassword(p, h) == h = HashPassword(p)

StoreIds == {rec.id : rec \in store}

\* UserService.findByEmail / findById: the user, or null
FindByEmail(email) ==
    IF \E u \in users : u.email = email
    THEN CHOOSE u \in users : u.email = email
    ELSE NoUser

FindById(sub) ==
    IF \E u \in users : u.id = ParseId(sub)
    THEN CHOOSE u \in users : u.id = ParseId(sub)
    ELSE NoUser

\* UserService.createUser(fields): a new user with a fresh id
CreateUser(email, hashedPassword) ==
    [id |-> nextUserId, email |-> email, password |-> hashedPassword]

\* JwtTokenService.persistRefreshToken(user): a new record with a fresh id
PersistRefreshToken(user) == [id |-> nextId, userId |-> user.id]

\* JwtTokenService.deleteRefreshToken(id): delete-by-id, absent id is no error
DeleteRefreshToken(id) == {rec \in store : rec.id # ParseId(id)}

\* JwtTokenService.generateAccessToken / generateRefreshToken: the signed claims
GenerateAccessToken(payload) ==
    [kind |-> "access", sub |-> payload.sub, email |-> payload.email, id |-> ""]
GenerateRefreshToken(payload, id) ==
    [kind |-> "refresh", sub |-> payload.sub, email |-> payload.email, id |-> id]

\* the transport adapter's check of a presented refresh token: signature and
\* kind, and the record it names is still in the store
RefreshTokenValid(tok) ==
    /\ tok.kind = "refresh"
    /\ ParseId(tok.id) \in StoreIds

\* the transport adapter's check of a presented access token: signature and kind
AccessTokenValid(tok) == tok.kind = "access"

(* ------------------------------ requests ------------------------------- *)
Slots == 1..MaxInFlight

Terminal == {"idle", "done", "threw"}
Finished == {"done", "threw"}

Idle ==
    [kind |-> "none", pc |-> "idle", body |-> NoBody, presented |-> NoToken,
     auth |-> NoToken, user |-> NoUser, accessToken |-> NoToken,
     newRefreshToken |-> NoRecord, errs |-> <<>>, status |-> 0, json |-> NoJson,
     cookies |-> NoCookies, cleared |-> {}]

NewRequest(kind, body, presented) ==
    [Idle EXCEPT !.kind = kind, !.pc = "start", !.body = body, !.presented = presented]

InFlight == {i \in Slots : reqs[i].pc \notin Terminal}

\* a request arrives on the lowest free slot
FreeSlot(i) ==
    /\ reqs[i].pc \in Terminal
    /\ \A j \in Slots : j < i => reqs[j].pc \notin Terminal

\* requests in flight that have a record still to create
ToPersist == {i \in Slots : reqs[i].pc \in {"createUser", "findUser", "persist"}}
ToCreateUser == {i \in Slots : reqs[i].pc = "createUser"}

RecordsLeft == nextId + Cardinality(ToPersist) <= MaxRecords
UsersLeft == nextUserId + Cardinality(ToCreateUser) <= MaxUsers

\* next(error) called twice on a failing path
NextError_Twice(q, status, msg) ==
    [q EXCEPT !.pc = "done",
              !.errs = Append(Append(@, [status |-> status, msg |-> msg]),
                              [status |-> status, msg |-> msg])]

\* next(createHttpError(status, msg)): the error reaches the error handler
NextError(q, status, msg) ==
    [q EXCEPT !.pc = "done", !.errs = Append(@, [status |-> status, msg |-> msg])]

\* setCookies with each token put under the other's cookie name
SetCookies_Swapped(q, accessToken, refreshToken) ==
    [q EXCEPT !.cookies = [accessToken |-> refreshToken, refreshToken |-> accessToken]]

\* setCookies(res, accessToken, refreshToken)
SetCookies(q, accessToken, refreshToken) ==
    [q EXCEPT !.cookies = [accessToken |-> accessToken, refreshToken |-> refreshToken]]

\* slot i's request becomes q; a finished request leaves its slot for last
Step(i, q) ==
    IF q.pc \in Finished
    THEN /\ reqs' = [reqs EXCEPT ![i] = Idle]
         /\ last' = q
    ELSE /\ reqs' = [reqs EXCEPT ![i] = q]
         /\ UNCHANGED last

\* the tokens that reached a client
DeliveredRefresh == {c.refreshToken : c \in delivered}
DeliveredAccess == {c.accessToken : c \in delivered}

Init ==
    /\ users = {}
    /\ nextUserId = 1
    /\ store = {}
    /\ nextId = 1
    /\ reqs = [i \in Slots |-> Idle]
    /\ last = Idle
    /\ delivered = {}
    /\ deletes = 0
    /\ chainOf = <<>>
    /\ issuedBy = <<>>
    /\ rotated = {}
    /\ loggedOut = {}

Ghosts == <<chainOf, issuedBy, rotated, loggedOut>>

(* --------------------------- environment ------------------------------ *)
\* the user directory drops a user (the handlers provide for a missing user)
DeleteUser(u) ==
    /\ deletes < MaxDeletes
    /\ u \in users
    /\ users' = users \ {u}
    /\ deletes' = deletes + 1
    /\ UNCHANGED <<nextUserId, store, nextId, reqs, last, delivered, Ghosts>>

\* an awaited collaborator call rejects: the async handler ends there, the
\* call has had no effect, and nothing later in the handler runs
Reject(i) ==
    /\ i \in InFlight
    /\ Step(i, [reqs[i] EXCEPT !.pc = "threw"])
    /\ UNCHANGED <<users, nextUserId, store, nextId, delivered, deletes, Ghosts>>

(* ------------------------------ register ------------------------------ *)
ValidationMsg == "Invalid value"

\* lines 50-80: validation, password hash, profile image check and upload;
\* createUser called
Register(i, email, password, valid, hasFile, uploaded) ==
    /\ FreeSlot(i) /\ RecordsLeft /\ UsersLeft
    /\ LET q == NewRequest("register", [email |-> email, password |-> password], NoToken)
       IN  Step(i,
             IF ~valid THEN NextError(q, 400, ValidationMsg)
             ELSE IF ~hasFile THEN NextError(q, 400, "Please Upload Image")
             ELSE IF ~uploaded THEN NextError(q, 500, "Failed to upload image")
             ELSE [q EXCEPT !.pc = "createUser"])
    /\ UNCHANGED <<users, nextUserId, store, nextId, delivered, deletes, Ghosts>>

\* lines 80-96: createUser takes effect (a taken email makes it reject);
\* payload and access token; persistRefreshToken called
RegisterCreateUser(i) ==
    /\ reqs[i].kind = "register" /\ reqs[i].pc = "createUser"
    /\ IF FindByEmail(reqs[i].body.email) # NoUser
       THEN /\ Step(i, [reqs[i] EXCEPT !.pc = "threw"])
            /\ UNCHANGED <<users, nextUserId>>
       ELSE LET user == CreateUser(reqs[i].body.email, HashPassword(reqs[i].body.password))
                payload == [sub |-> String(user.id), email |-> user.email]
            IN  /\ users' = users \cup {user}
                /\ nextUserId' = nextUserId + 1
                /\ Step(i, [reqs[i] EXCEPT !.pc = "persist", !.user = user,
                                            !.accessToken = GenerateAccessToken(payload)])
    /\ UNCHANGED <<store, nextId, delivered, deletes, Ghosts>>

\* lines 95-102: the record is persisted; refresh token, cookies, 201
RegisterPersist(i) ==
    /\ reqs[i].kind = "register" /\ reqs[i].pc = "persist"
    /\ LET q == reqs[i]
           newRefreshToken == PersistRefreshToken(q.user)
           payload == [sub |-> String(q.user.id), email |-> q.user.email]
           refreshToken == GenerateRefreshToken(payload, String(newRefreshToken.id))
           r == SetCookies(q, q.accessToken, refreshToken)
       IN  /\ store' = store \cup {newRefreshToken}
           /\ nextId' = nextId + 1
           /\ Step(i,
                 [r EXCEPT !.pc = "done", !.newRefreshToken = newRefreshToken,
                           !.status = 201, !.json = [NoJson EXCEPT !.id = String(q.user.id)]])
           /\ delivered' = delivered \cup {r.cookies}
           /\ chainOf' = Append(chainOf, newRefreshToken.id)
           /\ issuedBy' = Append(issuedBy, "register")
    /\ UNCHANGED <<users, nextUserId, deletes, rotated, loggedOut>>

(* ------------------------------- login -------------------------------- *)
\* line 122: the error of a login whose email no user has
LoginNoUserError == [status |-> 400, msg |-> "Email and password not match!"]
\* line 133 with a message of its own
LoginWrongPasswordError_Own == [status |-> 400, msg |-> "Password not match!"]

\* line 133: the error of a login whose password does not match
LoginWrongPasswordError == [status |-> 400, msg |-> "Email and password not match!"]

\* lines 127-132 with the test of line 132 inverted
IsPasswordMatch_Inverted(password, user) == ~ComparePassword(password, user.password)

\* lines 127-132: the password check that lets a login through
IsPasswordMatch(password, user) == ComparePassword(password, user.password)

\* lines 108-146 with the record persisted ahead of the password check
Login_PersistFirst(i, email, password, valid) ==
    /\ FreeSlot(i) /\ RecordsLeft
    /\ LET q == NewRequest("login", [email |-> email, password |-> password], NoToken)
           user == FindByEmail(email)
           payload == [sub |-> String(user.id), email |-> user.email]
           early == valid /\ user # NoUser /\ ~IsPasswordMatch(password, user)
       IN  /\ Step(i,
                 IF ~valid THEN NextError(q, 400, ValidationMsg)
                 ELSE IF user = NoUser
                      THEN NextError(q, LoginNoUserError.status, LoginNoUserError.msg)
                 ELSE IF ~IsPasswordMatch(password, user)
                      THEN NextError([q EXCEPT !.user = user],
                                     LoginWrongPasswordError.status, LoginWrongPasswordError.msg)
                 ELSE [q EXCEPT !.pc = "persist", !.user = user,
                                !.accessToken = GenerateAccessToken(payload)])
           /\ store' = IF early THEN store \cup {PersistRefreshToken(user)} ELSE store
           /\ nextId' = IF early THEN nextId + 1 ELSE nextId
           /\ chainOf' = IF early THEN Append(chainOf, nextId) ELSE chainOf
           /\ issuedBy' = IF early THEN Append(issuedBy, "login") ELSE issuedBy
    /\ UNCHANGED <<users, nextUserId, delivered, deletes, rotated, loggedOut>>

\* lines 108-146: validation, findByEmail, comparePassword, payload and
\* access token; persistRefreshToken called
Login(i, email, password, valid) ==
    /\ FreeSlot(i) /\ RecordsLeft
    /\ LET q == NewRequest("login", [email |-> email, password |-> password], NoToken)
           user == FindByEmail(email)
           payload == [sub |-> String(user.id), email |-> user.email]
       IN  Step(i,
             IF ~valid THEN NextError(q, 400, ValidationMsg)
             ELSE IF user = NoUser
                  THEN NextError(q, LoginNoUserError.status, LoginNoUserError.msg)
             ELSE IF ~IsPasswordMatch(password, user)
                  THEN NextError([q EXCEPT !.user = user],
                                 LoginWrongPasswordError.status, LoginWrongPasswordError.msg)
             ELSE [q EXCEPT !.pc = "persist", !.user = user,
                            !.accessToken = GenerateAccessToken(payload)])
    /\ UNCHANGED <<users, nextUserId, store, nextId, delivered, deletes, Ghosts>>

\* lines 145-156: the record is persisted; refresh token, cookies, 200
LoginPersist(i) ==
    /\ reqs[i].kind = "login" /\ reqs[i].pc = "persist"
    /\ LET q == reqs[i]
           newRefreshToken == PersistRefreshToken(q.user)
           payload == [sub |-> String(q.user.id), email |-> q.user.email]
           refreshToken == GenerateRefreshToken(payload, String(newRefreshToken.id))
           r == SetCookies(q, q.accessToken, refreshToken)
       IN  /\ store' = store \cup {newRefreshToken}
           /\ nextId' = nextId + 1
           /\ Step(i,
                 [r EXCEPT !.pc = "done", !.newRefreshToken = newRefreshToken,
                           !.status = 200, !.json = [NoJson EXCEPT !.id = String(q.user.id)]])
           /\ delivered' = delivered \cup {r.cookies}
           /\ chainOf' = Append(chainOf, newRefreshToken.id)
           /\ issuedBy' = Append(issuedBy, "login")
    /\ UNCHANGED <<users, nextUserId, deletes, rotated, loggedOut>>

(* -------------------------------- self -------------------------------- *)
\* the adapter's answer to a token it does not accept
TokenInvalid(q) == NextError(q, 401, "TokenInvalid")

\* lines 160-164: findById(auth.sub); the user (or null) is the response
Self(i, tok) ==
    /\ FreeSlot(i)
    /\ LET q == NewRequest("self", NoBody, tok)
       IN  Step(i,
             IF ~AccessTokenValid(tok) THEN TokenInvalid(q)
             ELSE [q EXCEPT !.pc = "done", !.auth = tok, !.user = FindById(tok.sub),
                            !.status = 200,
                            !.json = [NoJson EXCEPT !.user = FindById(tok.sub)]])
    /\ UNCHANGED <<users, nextUserId, store, nextId, delivered, deletes, Ghosts>>

(* ------------------------------ refresh ------------------------------- *)
\* line 192 with the new record's id handed to deleteRefreshToken
RefreshOldTokenId_New(q) == String(q.newRefreshToken.id)
\* line 192 with an id that names no record (the delete left out)
RefreshOldTokenId_None(q) == ""

\* line 192: the id handed to deleteRefreshToken by refreshTokenGenerate
RefreshOldTokenId(q) == q.auth.id

\* lines 172-180: the adapter admits the token; payload, access token;
\* findById called
Refresh(i, tok) ==
    /\ FreeSlot(i) /\ RecordsLeft
    /\ LET q == NewRequest("refresh", NoBody, tok)
           payload == [sub |-> tok.sub, email |-> tok.email]
       IN  Step(i,
             IF ~RefreshTokenValid(tok) THEN TokenInvalid(q)
             ELSE [q EXCEPT !.pc = "findUser", !.auth = tok,
                            !.accessToken = GenerateAccessToken(payload)])
    /\ UNCHANGED <<users, nextUserId, store, nextId, delivered, deletes, Ghosts>>

\* lines 180-189 with the old record deleted (line 192) ahead of the user check
RefreshFindUser_DeleteFirst(i) ==
    /\ reqs[i].kind = "refresh" /\ reqs[i].pc = "findUser"
    /\ LET user == FindById(reqs[i].auth.sub)
       IN  Step(i,
             IF user = NoUser
             THEN NextError(reqs[i], 400, "User with token could not found")
             ELSE [reqs[i] EXCEPT !.pc = "persist", !.user = user])
    /\ store' = DeleteRefreshToken(reqs[i].auth.id)
    /\ UNCHANGED <<users, nextUserId, nextId, delivered, deletes, Ghosts>>

\* lines 180-189: findById answers; a missing user is a 400;
\* persistRefreshToken called
RefreshFindUser(i) ==
    /\ reqs[i].kind = "refresh" /\ reqs[i].pc = "findUser"
    /\ LET user == FindById(reqs[i].auth.sub)
       IN  Step(i,
             IF user = NoUser
             THEN NextError(reqs[i], 400, "User with token could not found")
             ELSE [reqs[i] EXCEPT !.pc = "persist", !.user = user])
    /\ UNCHANGED <<users, nextUserId, store, nextId, delivered, deletes, Ghosts>>

\* lines 188-192: the new record is persisted; deleteRefreshToken called
RefreshPersist(i) ==
    /\ reqs[i].kind = "refresh" /\ reqs[i].pc = "persist"
    /\ LET newRefreshToken == PersistRefreshToken(reqs[i].user)
       IN  /\ store' = store \cup {newRefreshToken}
           /\ nextId' = nextId + 1
           /\ Step(i, [reqs[i] EXCEPT !.pc = "delete",
                                       !.newRefreshToken = newRefreshToken])
           /\ chainOf' = Append(chainOf, chainOf[ParseId(reqs[i].auth.id)])
           /\ issuedBy' = Append(issuedBy, "refresh")
    /\ UNCHANGED <<users, nextUserId, delivered, deletes, rotated, loggedOut>>

\* lines 192-200: the old record is deleted; refresh token, cookies, confirmation
RefreshDelete(i) ==
    /\ reqs[i].kind = "refresh" /\ reqs[i].pc = "delete"
    /\ LET q == reqs[i]
           payload == [sub |-> q.auth.sub, email |-> q.auth.email]
           refreshToken == GenerateRefreshToken(payload, String(q.newRefreshToken.id))
           r == SetCookies(q, q.accessToken, refreshToken)
       IN  /\ store' = DeleteRefreshToken(RefreshOldTokenId(q))
           /\ Step(i,
                 [r EXCEPT !.pc = "done", !.status = 200,
                           !.json = [NoJson EXCEPT !.msg = "new refresh token generateds"]])
           /\ delivered' = delivered \cup {r.cookies}
           /\ rotated' = rotated \cup {ParseId(q.presented.id)}
    /\ UNCHANGED <<users, nextUserId, nextId, deletes, chainOf, issuedBy, loggedOut>>

(* ------------------------------- logout ------------------------------- *)
\* line 206 with the user id (sub) handed to deleteRefreshToken
LogoutTokenId_Sub(q) == q.auth.sub
\* line 206 with an id that names no record (the delete left out)
LogoutTokenId_None(q) == ""

\* line 206: the id handed to deleteRefreshToken by logout
LogoutTokenId(q) == q.auth.id

\* lines 204-206: the adapter admits the token; deleteRefreshToken called
Logout(i, tok) ==
    /\ FreeSlot(i)
    /\ LET q == NewRequest("logout", NoBody, tok)
       IN  Step(i,
             IF ~RefreshTokenValid(tok) THEN TokenInvalid(q)
             ELSE [q EXCEPT !.pc = "delete", !.auth = tok])
    /\ UNCHANGED <<users, nextUserId, store, nextId, delivered, deletes, Ghosts>>

\* lines 206-212 with the outcome of the delete looked at: a record that
\* was not there is reported as an error
LogoutDelete_Strict(i) ==
    /\ reqs[i].kind = "logout" /\ reqs[i].pc = "delete"
    /\ store' = DeleteRefreshToken(LogoutTokenId(reqs[i]))
    /\ Step(i, IF ParseId(LogoutTokenId(reqs[i])) \in StoreIds
               THEN [reqs[i] EXCEPT !.pc = "done", !.status = 200,
                                    !.cleared = {"accessToken", "refreshToken"},
                                    !.json = [NoJson EXCEPT !.msg = "Successfully logged out"]]
               ELSE NextError(reqs[i], 404, "Refresh token not found"))
    /\ loggedOut' = loggedOut \cup {ParseId(reqs[i].presented.id)}
    /\ UNCHANGED <<users, nextUserId, nextId, delivered, deletes, chainOf, issuedBy, rotated>>

\* lines 206-212: the record is deleted; both cookies cleared; confirmation
LogoutDelete(i) ==
    /\ reqs[i].kind = "logout" /\ reqs[i].pc = "delete"
    /\ store' = DeleteRefreshToken(LogoutTokenId(reqs[i]))
    /\ Step(i, [reqs[i] EXCEPT !.pc = "done", !.status = 200,
                                !.cleared = {"accessToken", "refreshToken"},
                                !.json = [NoJson EXCEPT !.msg = "Successfully logged out"]])
    /\ loggedOut' = loggedOut \cup {ParseId(reqs[i].presented.id)}
    /\ UNCHANGED <<users, nextUserId, nextId, delivered, deletes, chainOf, issuedBy, rotated>>

(* ---------------------------- specification --------------------------- *)
Next ==
    \/ \E i \in Slots, e \in RegisterEmails, p \in RegisterPasswords, v, f, u \in BOOLEAN :
          Register(i, e, p, v, f, u)
    \/ \E i \in Slots : RegisterCreateUser(i)
    \/ \E i \in Slots : RegisterPersist(i)
    \/ \E i \in Slots, e \in LoginEmails, p \in LoginPasswords, v \in BOOLEAN : Login(i, e, p, v)
    \/ \E i \in Slots : LoginPersist(i)
    \/ \E i \in Slots, tok \in DeliveredAccess \cup {Garbage} : Self(i, tok)
    \/ \E i \in Slots, tok \in DeliveredRefresh \cup {Garbage} : Refresh(i, tok)
    \/ \E i \in Slots : RefreshFindUser(i)
    \/ \E i \in Slots : RefreshPersist(i)
    \/ \E i \in Slots : RefreshDelete(i)
    \/ \E i \in Slots, tok \in DeliveredRefresh \cup {Garbage} : Logout(i, tok)
    \/ \E i \in Slots : LogoutDelete(i)
    \/ \E i \in Slots : Reject(i)
    \/ \E u \in users : DeleteUser(u)

Spec == Init /\ [][Next]_vars

(* ------------------------- steps, as seen from outside ---------------- *)
\* slot i's request of this kind sends its success response in this step
Succeeds(i, kind) ==
    /\ reqs[i].kind = kind /\ reqs[i].pc \notin Terminal
    /\ reqs'[i].pc = "idle"
    /\ last'.pc = "done" /\ last'.status \in {200, 201}

\* slot i's request of this kind ends in this step, whatever the outcome
Ends(i, kind) ==
    /\ reqs[i].kind = kind /\ reqs[i].pc \notin Terminal
    /\ reqs'[i].pc = "idle"

\* a request of this kind arrives in this step and is let into slot i
Admitted(i, kind) == reqs[i].pc = "idle" /\ reqs'[i].kind = kind

\* a request of this kind arrives in this step and is answered at once
AnsweredAtOnce(kind) == reqs' = reqs /\ last' # last /\ last'.kind = kind

TokenInvalidError == <<[status |-> 401, msg |-> "TokenInvalid"]>>

\* a request that was turned away as TokenInvalid: no response of the
\* handler, no cookie, no record
TurnedAway(q) ==
    /\ q.pc = "done" /\ q.errs = TokenInvalidError
    /\ q.status = 0 /\ q.cookies = NoCookies /\ q.newRefreshToken = NoRecord

(* ------------------------------- claims ------------------------------- *)
\* C1: rotation invalidation.  When a refresh on a token bound to record R1
\* sends its success response, the store no longer holds R1 and holds the new
\* record R2, and the delivered refresh token is bound to R2.  From then on a
\* refresh that presents the R1-bound token is never let in: it is answered
\* TokenInvalid, and the store and the id counter are left as they were.
RotationInvalidation ==
    [][ /\ \A i \in Slots : Succeeds(i, "refresh") =>
              /\ ParseId(reqs[i].presented.id) \notin {rec.id : rec \in store'}
              /\ last'.newRefreshToken \in store'
              /\ last'.newRefreshToken.id # ParseId(reqs[i].presented.id)
              /\ ParseId(last'.cookies.refreshToken.id) = last'.newRefreshToken.id
        /\ \A i \in Slots : Admitted(i, "refresh") =>
              ParseId(reqs'[i].presented.id) \notin rotated
        /\ (AnsweredAtOnce("refresh") /\ ParseId(last'.presented.id) \in rotated) =>
              /\ TurnedAway(last')
              /\ store' = store /\ nextId' = nextId
      ]_vars

\* C1 witness: a refresh that presented the token of a rotated-away record
\* has been turned away
RotatedTokenRefused ==
    /\ last.kind = "refresh"
    /\ ParseId(last.presented.id) \in rotated
    /\ TurnedAway(last)

\* C2: concurrent refresh.  Of the refreshes that present the same token,
\* one succeeds; a refresh whose handler runs to its answer after another
\* refresh has succeeded with the same token answers with an error, sets no
\* cookie and leaves no record of its own in the store.
ConcurrentRefreshOneWinner ==
    [][ \A i \in Slots :
          (/\ Ends(i, "refresh") /\ last'.pc = "done"
           /\ ParseId(reqs[i].presented.id) \in rotated) =>
              /\ last'.status # 200
              /\ last'.errs # <<>>
              /\ last'.cookies = NoCookies
              /\ reqs[i].newRefreshToken \notin store'
      ]_vars

\* C3: logout revocation.  Once a logout of a session has completed, the
\* record its token is bound to is absent from the store, a refresh that
\* presents that token is never let in, and it is answered TokenInvalid with
\* the store and the id counter left as they were.
LogoutRevocation ==
    [][ /\ \A id \in loggedOut' : id \notin {rec.id : rec \in store'}
        /\ \A i \in Slots : Admitted(i, "refresh") =>
              ParseId(reqs'[i].presented.id) \notin loggedOut
        /\ (AnsweredAtOnce("refresh") /\ ParseId(last'.presented.id) \in loggedOut) =>
              /\ TurnedAway(last')
              /\ store' = store /\ nextId' = nextId
      ]_vars

\* C3 witness: after a login and the logout of its session, a refresh that
\* presented the revoked token has been turned away
LoggedOutTokenRefused ==
    /\ last.kind = "refresh"
    /\ ParseId(last.presented.id) \in loggedOut
    /\ issuedBy[ParseId(last.presented.id)] = "login"
    /\ TurnedAway(last)

\* C4: a record is in the store iff its refresh token is valid for use.
\* Every delivered refresh token that no completed refresh has rotated away
\* and no completed logout has revoked has its record in the store, and no
\* record in the store is one that a completed refresh or logout was run on.
RecordIffTokenValid ==
    /\ \A tok \in DeliveredRefresh :
          ParseId(tok.id) \notin (rotated \cup loggedOut) => ParseId(tok.id) \in StoreIds
    /\ \A rec \in store : rec.id \notin (rotated \cup loggedOut)

\* C4 witness: one delivered token rotated away, one revoked by logout, one
\* still valid with its record in the store
LiveAndRetiredTokens ==
    \E t1, t2, t3 \in DeliveredRefresh :
        /\ ParseId(t1.id) \in rotated /\ ParseId(t1.id) \notin StoreIds
        /\ ParseId(t2.id) \in loggedOut /\ ParseId(t2.id) \notin StoreIds
        /\ ParseId(t3.id) \notin (rotated \cup loggedOut) /\ ParseId(t3.id) \in StoreIds

\* C5: at most one record of a session chain is in the store at any time
AtMostOneRecordPerChain ==
    \A a, b \in store : chainOf[a.id] = chainOf[b.id] => a = b

\* C6: a login with a registered email and its secret succeeds, with a
\* record of its own.  A login that finds a user with that email and that
\* secret is not answered with the credentials error; and when its handler
\* runs to its answer, the answer is 200 with the user's id, the new record
\* is in the store under an id that no record had before and that no request
\* in flight holds, and the delivered refresh token is bound to it.
LoginSucceedsWithFreshRecord ==
    [][ /\ (/\ AnsweredAtOnce("login")
            /\ \E u \in users : /\ u.email = last'.body.email
                                /\ u.password = HashPassword(last'.body.password))
           => last'.errs = <<[status |-> 400, msg |-> ValidationMsg]>>
        /\ \A i \in Slots : (Ends(i, "login") /\ last'.pc = "done") =>
              /\ last'.status = 200 /\ last'.errs = <<>>
              /\ last'.json.id = String(last'.user.id)
              /\ last'.user.email = last'.body.email
              /\ last'.newRefreshToken \in store'
              /\ last'.newRefreshToken.id \notin DOMAIN chainOf
              /\ \A j \in Slots : reqs'[j].newRefreshToken # last'.newRefreshToken
              /\ last'.cookies.refreshToken.id = String(last'.newRefreshToken.id)
      ]_vars

\* C6 witness: a login has succeeded with a record created after another
\* call's record
LoginAfterEarlierRecord ==
    /\ last.kind = "login" /\ last.status = 200
    /\ last.newRefreshToken.id > 1
    /\ last.newRefreshToken \in store

\* C7: enumeration resistance.  A login that fails on its credentials sends
\* the same error, and nothing else, whether no user has the email or the
\* user's secret does not match.
FailedLoginLooksTheSame ==
    (/\ last.kind = "login" /\ last.pc = "done" /\ last.status # 200
     /\ last.errs # <<[status |-> 400, msg |-> ValidationMsg]>>)
    => /\ last.errs = <<LoginNoUserError>>
       /\ last.status = 0 /\ last.json = NoJson
       /\ last.cookies = NoCookies /\ last.cleared = {}

\* C7 witness: a login with a registered email and a wrong secret has failed
WrongSecretLoginFailed ==
    /\ last.kind = "login" /\ last.pc = "done"
    /\ last.user # NoUser /\ last.user.email = last.body.email
    /\ ~ComparePassword(last.body.password, last.user.password)
    /\ last.errs # <<>>

\* C8: ordering inside refresh.  A refresh in flight has sent no response and
\* set no cookie; when its success response is there, the old record is
\* absent from the store.
RefreshRespondsAfterDelete ==
    /\ \A i \in Slots : reqs[i].kind = "refresh" =>
          /\ reqs[i].status = 0 /\ reqs[i].cookies = NoCookies
          /\ reqs[i].json = NoJson
    /\ (last.kind = "refresh" /\ (last.status # 0 \/ last.cookies # NoCookies)) =>
          /\ last.pc = "done"
          /\ ParseId(last.auth.id) \notin StoreIds

\* C8 witness: a refresh has sent its success response with the rotated cookies
RefreshResponded ==
    /\ last.kind = "refresh" /\ last.status = 200
    /\ last.cookies.refreshToken.kind = "refresh"
    /\ last.newRefreshToken \in store

\* C9: abort safety.  A refresh that was cut short leaves no session chain
\* with the old record, its token still in a client's hands, next to the
\* successor record.
AbortLeavesNoStaleRecord ==
    (last.kind = "refresh" /\ last.pc = "threw") =>
        ~ /\ ParseId(last.auth.id) \in StoreIds
          /\ last.auth \in DeliveredRefresh
          /\ last.newRefreshToken \in store

\* C10: logout effect.  A logout admitted with record id R that sends its
\* confirmation has deleted R and no other record, has cleared both cookies,
\* and leaves the session chain of R with no record in the store.
LogoutEffect ==
    [][ \A i \in Slots : Succeeds(i, "logout") =>
          /\ ParseId(reqs[i].auth.id) \notin {rec.id : rec \in store'}
          /\ store' = {rec \in store : rec.id # ParseId(reqs[i].auth.id)}
          /\ last'.cleared = {"accessToken", "refreshToken"}
          /\ \A rec \in store' : chainOf[rec.id] # chainOf[ParseId(reqs[i].auth.id)]
      ]_vars

\* C11: soft failure of the old-record delete.  A refresh whose new record
\* was created and whose delete of the old record then failed has still sent
\* its success response with the new token pair, and has reported no error.
SoftDeleteFailure ==
    (/\ last.kind = "refresh" /\ last.pc = "threw"
     /\ last.newRefreshToken # NoRecord) =>
        /\ last.status = 200
        /\ last.cookies.refreshToken.id = String(last.newRefreshToken.id)
        /\ last.cookies.accessToken = last.accessToken
        /\ last.errs = <<>>

\* the request was run by its handler (register and login always are; a
\* refresh is once the adapter has put the token's claims on the request)
RanHandler(q) == q.kind \in {"register", "login"} \/ (q.kind = "refresh" /\ q.auth # NoToken)

IdempotentRevocation ==
    [][ \A i \in Slots :
          /\ (/\ Ends(i, "logout") /\ last'.pc = "done"
              /\ ParseId(reqs[i].auth.id) \notin StoreIds) =>
                 /\ last'.status = 200 /\ last'.errs = <<>>
                 /\ last'.cleared = {"accessToken", "refreshToken"}
                 /\ store' = store
          /\ (/\ Ends(i, "refresh") /\ reqs[i].pc = "delete" /\ last'.pc = "done"
              /\ ParseId(reqs[i].auth.id) \notin StoreIds) =>
                 /\ last'.status = 200 /\ last'.errs = <<>>
                 /\ store' = store
          /\ (Ends(i, "logout") /\ last'.pc = "done") =>
                 store' = {rec \in store : rec.id # ParseId(reqs[i].auth.id)}
          /\ (/\ Ends(i, "logout") /\ last'.pc = "done"
              /\ ParseId(reqs[i].auth.id) \in loggedOut) => store' = store
      ]_vars

\* C13 witness: a logout has completed whose record a refresh, let in on the
\* same token, had already deleted, and another record is in the store
LogoutOfDeletedRecord ==
    /\ last.kind = "logout" /\ last.status = 200
    /\ ParseId(last.auth.id) \in rotated
    /\ store # {}

\* C14: revoked is terminal under concurrency.  Once a logout and a refresh
\* that were both let in on the same refresh token have completed, the
\* session chain of that token has no record in the store, and no refresh
\* token of that chain that reached a client names a record in the store.
RevokedIsTerminal ==
    \A id \in rotated \cap loggedOut :
        /\ \A rec \in store : chainOf[rec.id] # chainOf[id]
        /\ \A tok \in DeliveredRefresh :
              chainOf[ParseId(tok.id)] = chainOf[id] => ~RefreshTokenValid(tok)

\* C15: a failed register or login changes no state.  A register or login
\* that reports an error does so before it has created anything: the step
\* in which it fails leaves the users, the store and both id counters as they
\* were and sets no cookie; and a register or login that has gone on to
\* create a user or a record does not answer with an error.
FailedCallChangesNothing ==
    [][ /\ ((AnsweredAtOnce("register") \/ AnsweredAtOnce("login")) /\ last'.errs # <<>>) =>
              /\ users' = users /\ nextUserId' = nextUserId
              /\ store' = store /\ nextId' = nextId
              /\ delivered' = delivered
              /\ last'.cookies = NoCookies /\ last'.newRefreshToken = NoRecord
        /\ \A i \in Slots :
              ((Ends(i, "register") \/ Ends(i, "login")) /\ last'.pc = "done") =>
                 last'.errs = <<>>
      ]_vars

\* C15 witness: with a user registered and a record in the store, a register
\* has failed for its missing profile image
RegisterWithoutImageFailed ==
    /\ last.kind = "register" /\ last.pc = "done"
    /\ last.errs = <<[status |-> 400, msg |-> "Please Upload Image"]>>
    /\ store # {} /\ users # {}

\* the error of a refresh whose user is gone (lines 182-185)
RefreshNoUserErrors == <<[status |-> 400, msg |-> "User with token could not found"]>>

\* C16: a refresh whose subject user no longer exists fails with a 400 and
\* leaves the store unchanged.  The step in which the handler finds no user
\* for the token's sub passes that one error to next, creates no record,
\* deletes none, delivers nothing and sets no cookie, although the access
\* token has been generated; and no refresh goes on to persist without a user.
RefreshOfMissingUserFails ==
    [][ \A i \in Slots :
          /\ (/\ Ends(i, "refresh") /\ reqs[i].pc = "findUser" /\ last'.pc = "done"
              /\ FindById(reqs[i].auth.sub) = NoUser) =>
                 /\ last'.errs = RefreshNoUserErrors
                 /\ last'.status = 0 /\ last'.json = NoJson
                 /\ store' = store /\ nextId' = nextId
                 /\ delivered' = delivered
                 /\ last'.newRefreshToken = NoRecord
                 /\ last'.cookies = NoCookies
                 /\ last'.accessToken = GenerateAccessToken([sub |-> reqs[i].auth.sub,
                                                            email |-> reqs[i].auth.email])
          /\ (reqs[i].kind = "refresh" /\ reqs[i].pc = "findUser"
              /\ reqs'[i].pc = "persist") => reqs'[i].user \in users
      ]_vars

\* C16 witness: a refresh has failed for its missing user; the record its
\* token names is still in the store and its access token was generated
RefreshOfMissingUserFailed ==
    /\ last.kind = "refresh" /\ last.pc = "done"
    /\ last.errs = RefreshNoUserErrors
    /\ FindById(last.auth.sub) = NoUser
    /\ ParseId(last.auth.id) \in StoreIds
    /\ last.accessToken.kind = "access"

\* C17: token binding.  When a register, login or refresh sends its success
\* response, the refresh token in the cookies carries the id of the record
\* that this call created (an id no other request holds and no token that
\* reached a client before carries), that record is in the store and belongs
\* to the user the token's sub names, and the access token in the cookies
\* carries the same sub and email.
TokenBinding ==
    [][ \A i \in Slots, kind \in {"register", "login", "refresh"} :
          Succeeds(i, kind) =>
             LET c == last'.cookies
                 rec == last'.newRefreshToken
             IN  /\ c \in delivered'
                 /\ c.refreshToken.kind = "refresh"
                 /\ c.refreshToken.id = String(rec.id)
                 /\ issuedBy'[rec.id] = kind
                 /\ \A j \in Slots : reqs'[j].newRefreshToken # rec
                 /\ \A tok \in DeliveredRefresh : tok.id # c.refreshToken.id
                 /\ rec \in store'
                 /\ rec.userId = ParseId(c.refreshToken.sub)
                 /\ c.accessToken.kind = "access"
                 /\ c.accessToken.sub = c.refreshToken.sub
                 /\ c.accessToken.email = c.refreshToken.email
      ]_vars

\* C17 witness: a refresh of the second user's session has succeeded with a
\* token bound to its own record, owned by that user
SecondUserRefreshBound ==
    /\ last.kind = "refresh" /\ last.status = 200
    /\ last.cookies.refreshToken.sub = "2"
    /\ last.cookies.refreshToken.id = String(last.newRefreshToken.id)
    /\ last.newRefreshToken \in store
    /\ last.newRefreshToken.userId = 2
    /\ last.cookies.accessToken.sub = "2"

(* ---------------------- requests run one at a time --------------------- *)
\* a request arrives only when no request is in flight
NoneInFlight == InFlight = {}

SeqNext ==
    \/ \E i \in Slots, e \in RegisterEmails, p \in RegisterPasswords, v, f, u \in BOOLEAN :
          NoneInFlight /\ Register(i, e, p, v, f, u)
    \/ \E i \in Slots : RegisterCreateUser(i)
    \/ \E i \in Slots : RegisterPersist(i)
    \/ \E i \in Slots, e \in LoginEmails, p \in LoginPasswords, v \in BOOLEAN :
          NoneInFlight /\ Login(i, e, p, v)
    \/ \E i \in Slots : LoginPersist(i)
    \/ \E i \in Slots, tok \in DeliveredAccess \cup {Garbage} : NoneInFlight /\ Self(i, tok)
    \/ \E i \in Slots, tok \in DeliveredRefresh \cup {Garbage} : NoneInFlight /\ Refresh(i, tok)
    \/ \E i \in Slots : RefreshFindUser(i)
    \/ \E i \in Slots : RefreshPersist(i)
    \/ \E i \in Slots : RefreshDelete(i)
    \/ \E i \in Slots, tok \in DeliveredRefresh \cup {Garbage} : NoneInFlight /\ Logout(i, tok)
    \/ \E i \in Slots : LogoutDelete(i)
    \/ \E i \in Slots : Reject(i)
    \/ \E u \in users : DeleteUser(u)

SeqSpec == Init /\ [][SeqNext]_vars

\* the user a record was created for, read off the token that carries its id
OwnerOf(id) ==
    IF \E tok \in DeliveredRefresh : ParseId(tok.id) = id
    THEN ParseId((CHOOSE tok \in DeliveredRefresh : ParseId(tok.id) = id).sub)
    ELSE 0

\* the records that successful register and login calls created for user u,
\* and the sessions of user u that completed logouts were run on
IssuedTo(u) ==
    {id \in DOMAIN issuedBy : issuedBy[id] \in {"register", "login"} /\ OwnerOf(id) = u}
LoggedOutOf(u) == {id \in loggedOut : OwnerOf(id) = u}

\* C18: record accounting in sequential runs.  With requests run one at a
\* time, between two requests the number of records of each user in the
\* store is the number of successful register and login calls of that user
\* minus the number of logouts of its live sessions (so a successful register
\* or login adds one record, a successful refresh none, a logout takes one).
RecordAccounting ==
    InFlight = {} =>
        \A u \in 1..MaxUsers :
            Cardinality({rec \in store : rec.userId = u}) + Cardinality(LoggedOutOf(u))
                = Cardinality(IssuedTo(u))

====
